---------------------------- MODULE Spec2Model ----------------------------
(***************************************************************************)
(* localGPT: the concurrent document ingestion of ingest.py, the query     *)
(* loop of run_localGPT.py and the prompt templates of                     *)
(* prompt_template_utils.py, as state machines.                            *)
(*                                                                         *)
(* Four specifications share the module: SpecIngest (load_documents and    *)
(* its two pools), SpecQuery (the interactive loop of main with the        *)
(* RetrievalQA chain and its ConversationBufferMemory), SpecPrompt         *)
(* (get_prompt_template and the formatting of the template it returns)     *)
(* and SpecMain (the two commands from their options to their work).       *)
(* Each one holds the variables of the others at their initial value.      *)
(***************************************************************************)
EXTENDS Integers, Sequences, FiniteSets, TLC

\* ------------------------------------------------------------------ bounds
\* Most directory entries of one ingestion run.
MaxFiles == 4
\* Largest value of INGEST_THREADS (os.cpu_count() or 8) that is tried.
MaxThreads == 3
\* Most input lines one session of the query loop reads.
MaxTurns == 3
\* Most documents load_documents hands to main of ingest.py.
MaxDocs == 3

\* ---------------------------------------------------------------- state
VARIABLES
    \* ingest.py, load_documents
    listing,     \* os.listdir(source_dir): the directory entries, in listing order
    threads,     \* INGEST_THREADS of this machine
    ipc,         \* where load_documents is: "start", "collecting", "done", "raised"
    error,       \* the exception load_documents raised ("" for none)
    paths,       \* the eligible files, in listing order
    n_workers,   \* max_workers of the ProcessPoolExecutor
    chunksize,   \* the step of the batch loop
    futures,     \* the submitted batches (filepaths of each), in submission order
    bstat,       \* each batch's future: "queued", "running", "ok", "err"
    fstat,       \* each path's load_single_document future: "pending", "ok", "err"
    consumed,    \* the batch futures as_completed has yielded
    docs,        \* the docs list of load_documents
    \* run_localGPT.py, the loop of main
    qpc,         \* the loop: "awaiting", "terminated", "crashed"
    memory,      \* the messages of the ConversationBufferMemory, oldest first
    inputs,      \* the lines input() has returned, in order
    outcomes,    \* per line: "exit", "answered", "retrieval_error", "generation_error"
    answers,     \* per line: the answer the language model gave ("" for none)
    calls,       \* the queries qa() was called with, in order
    lastPrompt,  \* the prompt of the latest language model call (<<>> for none)
    promptTurn,  \* the number of the line that prompt was composed for (0 for none)
    \* prompt_template_utils.py, get_prompt_template and the use of its result
    system_prompt,        \* the system_prompt argument, in pieces
    promptTemplate_type,  \* the promptTemplate_type argument ("None" for None)
    history,              \* the history argument
    validate_template,    \* whether PromptTemplate validates at construction
    ppc,                  \* "args", "built", "formatted", "raised"
    prompt_template,      \* the template string of the PromptTemplate, in pieces
    input_variables,      \* the input_variables of the PromptTemplate
    chat,                 \* the messages of the memory when the template is used
    rendered,             \* the prompt the template was formatted to
    \* the two commands: main of ingest.py and main of run_localGPT.py
    command,           \* "ingest" or "query"
    device_type,       \* the --device_type option
    openai,            \* the --openai flag
    api_key,           \* what is typed at the API key prompt
    model_id,          \* the model id after the model prompts of the query command
    loaded,            \* what load_documents returns to main of ingest.py
    mpc,               \* "cli", "main", "loaded", "split", "embeddings", "ready", "done", "exited"
    fatal,             \* the error that ended the command ("" for none)
    work,              \* the work done so far, in order
    documents,         \* main of ingest.py: documents
    text_documents,    \* main of ingest.py: text_documents
    python_documents,  \* main of ingest.py: python_documents
    texts              \* main of ingest.py: per chunked document, the splitter that chunked it

ingestVars == <<listing, threads, ipc, error, paths, n_workers, chunksize,
                futures, bstat, fstat, consumed, docs>>

queryVars == <<qpc, memory, inputs, outcomes, answers, calls, lastPrompt, promptTurn>>

promptVars == <<system_prompt, promptTemplate_type, history, validate_template,
                ppc, prompt_template, input_variables, chat, rendered>>

mainVars == <<command, device_type, openai, api_key, model_id, loaded, mpc, fatal,
              work, documents, text_documents, python_documents, texts>>

vars == <<ingestVars, queryVars, promptVars, mainVars>>

\* ------------------------------------------------------------- ingest.py
\* The registered extensions.
DOCUMENT_MAP == {".txt", ".md", ".py", ".pdf", ".csv", ".xls", ".xlsx", ".docx", ".doc"}

\* The kinds of directory entry that are tried: the extension os.path.splitext
\* gives the entry, and whether its loader's load() returns a document (loads)
\* or raises on the file's content.
FileKinds ==
    { [ext |-> ".txt", loads |-> TRUE],
      [ext |-> ".py",  loads |-> TRUE],
      [ext |-> ".pdf", loads |-> FALSE],
      [ext |-> ".zip", loads |-> TRUE] }

\* A directory of n entries: entry i is named i.
Listings(n) ==
    { [i \in 1..n |-> [name |-> i, ext |-> k[i].ext, loads |-> k[i].loads]] :
        k \in [1..n -> FileKinds] }

Min(a, b) == IF a <= b THEN a ELSE b
Max(a, b) == IF a >= b THEN a ELSE b

\* Python's round(n / w) for integers n >= 0, w >= 1: to the nearest integer,
\* an exact half to the even neighbour.
PyRound(n, w) ==
    LET q == n \div w
        r == n % w
    IN  IF 2 * r < w THEN q
        ELSE IF 2 * r > w THEN q + 1
        ELSE IF q % 2 = 0 THEN q ELSE q + 1

\* The files of the listing with a registered extension, in listing order.
Eligible(l) == SelectSeq(l, LAMBDA f : f.ext \in DOCUMENT_MAP)

NWorkersAll(n) == threads
\* n_workers = min(INGEST_THREADS, max(len(paths), 1))
NWorkers(n) == Min(threads, Max(n, 1))

\* chunksize = round(len(paths) / n_workers)
ChunkSize(n, w) == PyRound(n, w)

\* len(range(0, n, step)) for step >= 1
RangeLen(n, step) == (n + step - 1) \div step

SliceShort(p, i, size) == SubSeq(p, i + 1, Min(i + size - 1, Len(p)))
\* paths[i : (i + chunksize)]
Slice(p, i, size) == SubSeq(p, i + 1, Min(i + size, Len(p)))

\* The batches the loop over range(0, len(paths), chunksize) submits.
Batches(p, size) ==
    [b \in 1..RangeLen(Len(p), size) |-> Slice(p, (b - 1) * size, size)]

\* The position in paths of file k of batch b.
PathIndex(b, k) == (b - 1) * chunksize + k

\* load_single_document: the loader of the file's extension, or ValueError;
\* then the first document the loader returns.
LoadSingleDocument(f) ==
    IF f.ext \in DOCUMENT_MAP /\ f.loads THEN "ok" ELSE "err"

Document(f) == [source |-> [name |-> f.name, ext |-> f.ext]]

DataListReversed(b) ==
    [k \in 1..Len(futures[b]) |-> Document(futures[b][Len(futures[b]) + 1 - k])]
\* data_list = [future.result() for future in futures]: the documents in the
\* order of filepaths.
DataList(b) == [k \in 1..Len(futures[b]) |-> Document(futures[b][k])]

Running == {b \in 1..Len(futures) : bstat[b] = "running"}

\* load_documents up to the as_completed loop: the listing is filtered, the
\* worker count and the chunk size are computed, and every batch is submitted.
\* range() with a step of 0 raises ValueError.
Dispatch ==
    /\ ipc = "start"
    /\ LET p == Eligible(listing)
           w == NWorkers(Len(p))
           c == ChunkSize(Len(p), w)
       IN  /\ paths' = p
           /\ n_workers' = w
           /\ chunksize' = c
           /\ IF c = 0
              THEN /\ ipc' = "raised"
                   /\ error' = "ValueError"
                   /\ UNCHANGED <<futures, bstat, fstat>>
              ELSE /\ ipc' = "collecting"
                   /\ error' = ""
                   /\ futures' = Batches(p, c)
                   /\ bstat' = [b \in 1..RangeLen(Len(p), c) |-> "queued"]
                   /\ fstat' = [i \in 1..Len(p) |-> "pending"]
    /\ UNCHANGED <<listing, threads, consumed, docs>>
    /\ UNCHANGED <<queryVars, promptVars, mainVars>>

\* A free worker process of the pool takes the oldest queued batch and runs
\* load_document_batch on it, which submits one thread task per file.
StartBatch(b) ==
    /\ ipc = "collecting"
    /\ b \in 1..Len(futures)
    /\ bstat[b] = "queued"
    /\ \A c \in 1..(b - 1) : bstat[c] # "queued"
    /\ Cardinality(Running) < n_workers
    /\ bstat' = [bstat EXCEPT ![b] = "running"]
    /\ UNCHANGED <<listing, threads, ipc, error, paths, n_workers, chunksize,
                   futures, fstat, consumed, docs>>
    /\ UNCHANGED <<queryVars, promptVars, mainVars>>

\* One thread of a running batch finishes load_single_document on its file.
LoadSingle(b, k) ==
    /\ ipc = "collecting"
    /\ b \in 1..Len(futures)
    /\ bstat[b] = "running"
    /\ k \in 1..Len(futures[b])
    /\ fstat[PathIndex(b, k)] = "pending"
    /\ fstat' = [fstat EXCEPT ![PathIndex(b, k)] = LoadSingleDocument(futures[b][k])]
    /\ UNCHANGED <<listing, threads, ipc, error, paths, n_workers, chunksize,
                   futures, bstat, consumed, docs>>
    /\ UNCHANGED <<queryVars, promptVars, mainVars>>

\* The outcome of load_document_batch once every thread of the batch is done:
\* future.result() re-raises the exception of a failed load, and the batch's
\* own future fails; otherwise (data_list, filepaths) is returned.
BatchOutcome(b) ==
    IF \E k \in 1..Len(futures[b]) : fstat[PathIndex(b, k)] = "err"
    THEN "err" ELSE "ok"

\* load_document_batch returns or raises: the thread pool's with block ends
\* when every thread has finished.
BatchReturn(b) ==
    /\ ipc = "collecting"
    /\ b \in 1..Len(futures)
    /\ bstat[b] = "running"
    /\ \A k \in 1..Len(futures[b]) : fstat[PathIndex(b, k)] # "pending"
    /\ bstat' = [bstat EXCEPT ![b] = BatchOutcome(b)]
    /\ UNCHANGED <<listing, threads, ipc, error, paths, n_workers, chunksize,
                   futures, fstat, consumed, docs>>
    /\ UNCHANGED <<queryVars, promptVars, mainVars>>

\* One iteration of the as_completed loop: a finished batch future that was
\* not yet yielded. future.result() re-raises a failed batch's exception out of
\* load_documents, which then returns nothing; otherwise docs.extend(contents).
\* (After the raise the pool's with block only waits for the workers; nothing
\* they do is observed, so the model stops them.)
Collect(b) ==
    /\ ipc = "collecting"
    /\ b \in 1..Len(futures)
    /\ b \notin consumed
    /\ bstat[b] \in {"ok", "err"}
    /\ consumed' = consumed \cup {b}
    /\ IF bstat[b] = "err"
       THEN /\ ipc' = "raised"
            /\ error' = "LoadError"
            /\ docs' = docs
       ELSE /\ docs' = docs \o DataList(b)
            /\ UNCHANGED <<ipc, error>>
    /\ UNCHANGED <<listing, threads, paths, n_workers, chunksize, futures,
                   bstat, fstat>>
    /\ UNCHANGED <<queryVars, promptVars, mainVars>>

\* as_completed is exhausted: return docs.
Return ==
    /\ ipc = "collecting"
    /\ consumed = 1..Len(futures)
    /\ ipc' = "done"
    /\ UNCHANGED <<listing, threads, error, paths, n_workers, chunksize,
                   futures, bstat, fstat, consumed, docs>>
    /\ UNCHANGED <<queryVars, promptVars, mainVars>>

\* What load_documents hands to its caller: docs on return, nothing on a raise.
Returned == IF ipc = "done" THEN docs ELSE <<>>

\* The failures load_documents records for its caller: its return value is the
\* document list alone.
Failures == <<>>

\* ------------------------------------------------------- run_localGPT.py
\* The lines that are typed, the texts the retriever's documents join to, and
\* the completions of the language model.
Lines == {"exit", "", "Exit", "q1"}
Contexts == {"", "chunk"}
Completions == {"a1", "a2"}

\* The placeholders of a template.
Slots == {"{context}", "{history}", "{question}"}

\* The template of main, cut into pieces: literal text and placeholders. (The
\* backslash at the end of its first line joins the first two lines.)
MainTemplate ==
    << "\n        Use the following context and conversation history to answer the question at the end. If you don't know the answer,        just say that you don't know, don't try to make up an answer.\n        ",
       "Context: ", "{context}", "\n        ",
       "History: ", "{history}", "\n        ",
       "Question: ", "{question}", "\n        ",
       "Helpful Answer:", "\n        " >>

\* PromptTemplate.format: every placeholder is replaced by the pieces of its
\* value, the literal text is kept.
RECURSIVE Format(_, _)
Format(template, values) ==
    IF template = <<>> THEN <<>>
    ELSE (IF Head(template) \in Slots THEN values[Head(template)] ELSE <<Head(template)>>)
         \o Format(Tail(template), values)

IsSentinelOrEmpty(query) == query \in {"exit", ""}
\* query == "exit"
IsSentinel(query) == query = "exit"

SaveContextWindow(mem, question, answer) ==
    << [role |-> "Human", content |-> question], [role |-> "AI", content |-> answer] >>
\* ConversationBufferMemory.save_context: the question as a human message and
\* the answer as an AI message are appended to the chat history.
SaveContext(mem, question, answer) ==
    mem \o << [role |-> "Human", content |-> question],
              [role |-> "AI", content |-> answer] >>

\* ConversationBufferMemory.buffer (get_buffer_string): one "role: content"
\* line per message, joined by newlines.
RECURSIVE BufferString(_)
BufferString(mem) ==
    IF mem = <<>> THEN <<>>
    ELSE << Head(mem).role \o ": ", Head(mem).content >>
         \o (IF Tail(mem) = <<>> THEN <<>> ELSE <<"\n">> \o BufferString(Tail(mem)))

\* The values the chain formats a prompt with: the retrieved context, the
\* memory's history variable and the question.
ChainInputs(mem, context, question) ==
    [s \in Slots |->
        CASE s = "{context}"  -> <<context>>
          [] s = "{history}"  -> BufferString(mem)
          [] s = "{question}" -> <<question>>]

\* The prompt the chain of main composes for a question.
Compose(mem, context, question) ==
    Format(MainTemplate, ChainInputs(mem, context, question))

MemoryAfterAlways(mem, question, generated, answer) == SaveContext(mem, question, answer)
\* The memory after the chain's call: Chain saves the context once the call
\* has produced its output, and not when the call raised.
MemoryAfter(mem, question, generated, answer) ==
    IF generated THEN SaveContext(mem, question, answer) ELSE mem

\* input() returns the sentinel: break.
Exit(query) ==
    /\ qpc = "awaiting"
    /\ Len(inputs) < MaxTurns
    /\ IsSentinel(query)
    /\ qpc' = "terminated"
    /\ inputs' = Append(inputs, query)
    /\ outcomes' = Append(outcomes, "exit")
    /\ answers' = Append(answers, "")
    /\ UNCHANGED <<memory, calls, lastPrompt, promptTurn>>
    /\ UNCHANGED <<ingestVars, promptVars, mainVars>>

\* A turn that succeeds: qa(query) retrieves, composes the prompt from the
\* memory as it is, generates, saves the turn to memory and returns; the
\* answer is printed and the loop reads the next line.
Answer(query, context, completion) ==
    /\ qpc = "awaiting"
    /\ Len(inputs) < MaxTurns
    /\ ~IsSentinel(query)
    /\ calls' = Append(calls, query)
    /\ lastPrompt' = Compose(memory, context, query)
    /\ promptTurn' = Len(inputs) + 1
    /\ memory' = MemoryAfter(memory, query, TRUE, completion)
    /\ inputs' = Append(inputs, query)
    /\ outcomes' = Append(outcomes, "answered")
    /\ answers' = Append(answers, completion)
    /\ UNCHANGED qpc
    /\ UNCHANGED <<ingestVars, promptVars, mainVars>>

\* A turn whose retrieval raises: nothing in main catches the exception, which
\* leaves the loop and ends main.
RetrievalFails(query) ==
    /\ qpc = "awaiting"
    /\ Len(inputs) < MaxTurns
    /\ ~IsSentinel(query)
    /\ calls' = Append(calls, query)
    /\ qpc' = "crashed"
    /\ inputs' = Append(inputs, query)
    /\ outcomes' = Append(outcomes, "retrieval_error")
    /\ answers' = Append(answers, "")
    /\ UNCHANGED <<memory, lastPrompt, promptTurn>>
    /\ UNCHANGED <<ingestVars, promptVars, mainVars>>

\* A turn whose language model call raises: the prompt was composed, the
\* exception leaves the chain before the memory is saved, then the loop and main.
GenerationFails(query, context) ==
    /\ qpc = "awaiting"
    /\ Len(inputs) < MaxTurns
    /\ ~IsSentinel(query)
    /\ calls' = Append(calls, query)
    /\ lastPrompt' = Compose(memory, context, query)
    /\ promptTurn' = Len(inputs) + 1
    /\ memory' = MemoryAfter(memory, query, FALSE, "")
    /\ qpc' = "crashed"
    /\ inputs' = Append(inputs, query)
    /\ outcomes' = Append(outcomes, "generation_error")
    /\ answers' = Append(answers, "")
    /\ UNCHANGED <<ingestVars, promptVars, mainVars>>

\* ------------------------------------------- prompt_template_utils.py
\* constants.TEMPLATE, the default system prompt, cut into pieces.
TEMPLATE ==
    << "\n    You are a helpful systems engineer with 20 years of experience who answers questions\n    about systems engineering. You will be provided with relevant information in the form\n    of documents. Additional context for the question may be found in the chat history. Your\n    task is to write a clear, helpful, detailed, and factually accurate answer to the question\n    at the end using only the provided documents and chat history. If the documents do not\n    contain the information needed to answer the question, generate an answer regardless, but\n    include the string \"This answer contains information not present in the source documents.\"\n    at the end.\n\n    ",
       "Documents: ###", "\n    ", "{context}", "\n    ", "###", "\n\n    ",
       "Chat History: ###", "\n    ", "{history}", "\n    ", "###", "\n\n    ",
       "Question: ###", "\n    ", "{question}", "\n    ", "###", "\n\n    ",
       "Helpful Answer:", "\n    " >>

\* The system prompts that are tried: the default, and one without placeholders.
SystemPrompts == { TEMPLATE, <<"You are a helpful assistant.">> }

\* The values of promptTemplate_type that are tried ("None" for None).
TemplateTypes == {"llama", "None", "mistral"}

B_INST == "[INST]"
E_INST == "[/INST]"
B_SYS == "<<SYS>>\n"
E_SYS == "\n<</SYS>>\n\n"

\* The instruction of the llama family, with and without the history slot.
LlamaInstruction(hist) ==
    IF hist
    THEN << "\n            ", "Documents: ###", "\n            ", "{context}",
            "\n            ", "###", "\n\n            ",
            "Chat History: ###", "\n            ", "{history}",
            "\n            ", "###", "\n\n            ",
            "Question: ###", "\n            ", "{question}",
            "\n            ", "###" >>
    ELSE << "\n            ", "Documents: ###", "\n            ", "{context}",
            "\n            ", "###", "\n\n            ",
            "Chat History: ###", "\n            ", "\n            ", "###",
            "\n\n            ",
            "Question: ###", "\n            ", "{question}",
            "\n            ", "###", "\n\n            ",
            "Helpful Answer:" >>

\* The text the other family appends to the system prompt.
PlainInstruction(hist) ==
    IF hist
    THEN << "\n    ", "\n            ", "Documents: ###", "\n            ", "{context}",
            "\n            ", "###", "\n\n            ",
            "Chat History: ###", "\n            ", "{history}",
            "\n            ", "###", "\n\n            ",
            "Question: ###", "\n            ", "{question}",
            "\n            ", "###", "\n\n            ",
            "Helpful Answer:" >>
    ELSE << "\n            ", "\n            ", "Documents: ###", "\n            ", "{context}",
            "\n            ", "###", "\n\n            ",
            "Chat History: ###", "\n\n            ", "###",
            "\n\n            ",
            "Question: ###", "\n            ", "{question}",
            "\n            ", "###", "\n\n            ",
            "Helpful Answer:" >>

\* prompt_template of get_prompt_template: the llama family for the type
\* "llama", the other family for every other type.
PromptTemplateText(sp, type, hist) ==
    IF type = "llama"
    THEN <<B_INST, B_SYS>> \o sp \o <<E_SYS>> \o LlamaInstruction(hist) \o <<E_INST>>
    ELSE sp \o PlainInstruction(hist)

\* input_variables of the PromptTemplate that get_prompt_template constructs.
InputVariables(hist) ==
    IF hist THEN {"{history}", "{context}", "{question}"}
    ELSE {"{context}", "{question}"}

\* The placeholders that occur in a template.
SlotsOf(template) == {template[i] : i \in 1..Len(template)} \cap Slots

\* get_prompt_template: the template is put together and the PromptTemplate is
\* constructed. A PromptTemplate that validates at construction raises
\* ValueError when the placeholders of the template are not its
\* input_variables.
GetPromptTemplate ==
    /\ ppc = "args"
    /\ prompt_template' = PromptTemplateText(system_prompt, promptTemplate_type, history)
    /\ input_variables' = InputVariables(history)
    /\ ppc' = IF validate_template
                 /\ SlotsOf(PromptTemplateText(system_prompt, promptTemplate_type, history))
                       # InputVariables(history)
              THEN "raised" ELSE "built"
    /\ UNCHANGED <<system_prompt, promptTemplate_type, history, validate_template,
                   chat, rendered>>
    /\ UNCHANGED <<ingestVars, queryVars, mainVars>>

\* A chain formats the prompt: it passes the values of the input_variables,
\* the history being the buffer of the memory; a placeholder of the template
\* that is given no value raises KeyError.
FormatPrompt(mem, context, question) ==
    /\ ppc = "built"
    /\ chat' = mem
    /\ IF SlotsOf(prompt_template) \subseteq input_variables
       THEN /\ rendered' = Format(prompt_template,
                                  [s \in input_variables |->
                                      ChainInputs(mem, context, question)[s]])
            /\ ppc' = "formatted"
       ELSE /\ rendered' = <<>>
            /\ ppc' = "raised"
    /\ UNCHANGED <<system_prompt, promptTemplate_type, history, validate_template,
                   prompt_template, input_variables>>
    /\ UNCHANGED <<ingestVars, queryVars, mainVars>>

\* The memories a template is used with: empty, and one earlier turn.
Chats == { <<>>, SaveContext(<<>>, "q0", "a0") }

\* --------------------------------------------------------- specifications
InitIngest ==
    /\ listing \in UNION {Listings(n) : n \in 0..MaxFiles}
    /\ threads \in 1..MaxThreads
    /\ ipc = "start"
    /\ error = ""
    /\ paths = <<>>
    /\ n_workers = 0
    /\ chunksize = 0
    /\ futures = <<>>
    /\ bstat = <<>>
    /\ fstat = <<>>
    /\ consumed = {}
    /\ docs = <<>>
    /\ qpc = "awaiting"
    /\ memory = <<>>
    /\ inputs = <<>>
    /\ outcomes = <<>>
    /\ answers = <<>>
    /\ calls = <<>>
    /\ lastPrompt = <<>>
    /\ promptTurn = 0
    /\ system_prompt = <<>>
    /\ promptTemplate_type = "None"
    /\ history = FALSE
    /\ validate_template = TRUE
    /\ ppc = "args"
    /\ prompt_template = <<>>
    /\ input_variables = {}
    /\ chat = <<>>
    /\ rendered = <<>>
    /\ command = "ingest"
    /\ device_type = "cpu"
    /\ openai = FALSE
    /\ api_key = ""
    /\ model_id = ""
    /\ loaded = <<>>
    /\ mpc = "cli"
    /\ fatal = ""
    /\ work = <<>>
    /\ documents = <<>>
    /\ text_documents = <<>>
    /\ python_documents = <<>>
    /\ texts = <<>>

NextIngest ==
    \/ Dispatch
    \/ \E b \in 1..MaxFiles : StartBatch(b)
    \/ \E b \in 1..MaxFiles, k \in 1..MaxFiles : LoadSingle(b, k)
    \/ \E b \in 1..MaxFiles : BatchReturn(b)
    \/ \E b \in 1..MaxFiles : Collect(b)
    \/ Return

SpecIngest == InitIngest /\ [][NextIngest]_vars

InitQuery ==
    /\ listing = <<>>
    /\ threads = 1
    /\ ipc = "start"
    /\ error = ""
    /\ paths = <<>>
    /\ n_workers = 0
    /\ chunksize = 0
    /\ futures = <<>>
    /\ bstat = <<>>
    /\ fstat = <<>>
    /\ consumed = {}
    /\ docs = <<>>
    /\ qpc = "awaiting"
    /\ memory = <<>>
    /\ inputs = <<>>
    /\ outcomes = <<>>
    /\ answers = <<>>
    /\ calls = <<>>
    /\ lastPrompt = <<>>
    /\ promptTurn = 0
    /\ system_prompt = <<>>
    /\ promptTemplate_type = "None"
    /\ history = FALSE
    /\ validate_template = TRUE
    /\ ppc = "args"
    /\ prompt_template = <<>>
    /\ input_variables = {}
    /\ chat = <<>>
    /\ rendered = <<>>
    /\ command = "ingest"
    /\ device_type = "cpu"
    /\ openai = FALSE
    /\ api_key = ""
    /\ model_id = ""
    /\ loaded = <<>>
    /\ mpc = "cli"
    /\ fatal = ""
    /\ work = <<>>
    /\ documents = <<>>
    /\ text_documents = <<>>
    /\ python_documents = <<>>
    /\ texts = <<>>

NextQuery ==
    \/ \E query \in Lines : Exit(query)
    \/ \E query \in Lines, context \in Contexts, completion \in Completions :
          Answer(query, context, completion)
    \/ \E query \in Lines : RetrievalFails(query)
    \/ \E query \in Lines, context \in Contexts : GenerationFails(query, context)

SpecQuery == InitQuery /\ [][NextQuery]_vars

InitPrompt ==
    /\ listing = <<>>
    /\ threads = 1
    /\ ipc = "start"
    /\ error = ""
    /\ paths = <<>>
    /\ n_workers = 0
    /\ chunksize = 0
    /\ futures = <<>>
    /\ bstat = <<>>
    /\ fstat = <<>>
    /\ consumed = {}
    /\ docs = <<>>
    /\ qpc = "awaiting"
    /\ memory = <<>>
    /\ inputs = <<>>
    /\ outcomes = <<>>
    /\ answers = <<>>
    /\ calls = <<>>
    /\ lastPrompt = <<>>
    /\ promptTurn = 0
    /\ system_prompt \in SystemPrompts
    /\ promptTemplate_type \in TemplateTypes
    /\ history \in BOOLEAN
    /\ validate_template \in BOOLEAN
    /\ ppc = "args"
    /\ prompt_template = <<>>
    /\ input_variables = {}
    /\ chat = <<>>
    /\ rendered = <<>>
    /\ command = "ingest"
    /\ device_type = "cpu"
    /\ openai = FALSE
    /\ api_key = ""
    /\ model_id = ""
    /\ loaded = <<>>
    /\ mpc = "cli"
    /\ fatal = ""
    /\ work = <<>>
    /\ documents = <<>>
    /\ text_documents = <<>>
    /\ python_documents = <<>>
    /\ texts = <<>>

NextPrompt ==
    \/ GetPromptTemplate
    \/ \E mem \in Chats, context \in Contexts, question \in {"q1", ""} :
          FormatPrompt(mem, context, question)

SpecPrompt == InitPrompt /\ [][NextPrompt]_vars

\* ------------------------------------------------- the two commands (main)

\* click.Choice of --device_type, the same list in ingest.py and run_localGPT.py.
DEVICE_CHOICES ==
    { "cpu", "cuda", "ipu", "xpu", "mkldnn", "opengl", "opencl", "ideep", "hip",
      "ve", "fpga", "ort", "xla", "lazy", "vulkan", "mps", "meta", "hpu", "mtia" }

\* The --device_type values that are tried: two of the choices and one outside.
DeviceArgs == {"cpu", "cuda", "tpu"}

\* What is typed at "Please provide a valid OpenAI API key: ".
ApiKeys == {"", "sk-key"}

\* OpenAIEmbeddings(openai_api_key=key) and ChatOpenAI(openai_api_key=key)
\* raise at construction when the key is empty and OPENAI_API_KEY is not set.
KeyMissing(key) == key = ""

\* The model id in effect after the model prompts: the default one, or one
\* typed that no repository of the hub has.
DEFAULT_MODEL_ID == "TheBloke/orca_mini_v3_13B-GPTQ"
ModelIds == {DEFAULT_MODEL_ID, "no/such-model"}

\* load_model: AutoTokenizer.from_pretrained / hf_hub_download raise for an id
\* the hub does not have.
LoadModelRaises(id) == id # DEFAULT_MODEL_ID

\* The lists load_documents may hand to main: document i comes from file i,
\* its extension one that DOCUMENT_MAP has a loader for.
LoadedExts == {".py", ".txt", ".md"}
LoadedLists ==
    UNION { { [i \in 1..n |-> [source |-> [name |-> i, ext |-> e[i]]]] :
                e \in [1..n -> LoadedExts] } : n \in 0..MaxDocs }

\* os.path.splitext(doc.metadata["source"])[1]
FileExtension(doc) == doc.source.ext

ToPythonByLoader(doc) == FileExtension(doc) \in DOCUMENT_MAP \ {".txt"}
\* if file_extension == ".py"
ToPython(doc) == FileExtension(doc) = ".py"

\* The loop of split_documents over what is left of documents.
RECURSIVE SplitLoop(_, _, _)
SplitLoop(ds, text_docs, python_docs) ==
    IF ds = <<>>
    THEN [text_docs |-> text_docs, python_docs |-> python_docs]
    ELSE IF ToPython(Head(ds))
         THEN SplitLoop(Tail(ds), text_docs, Append(python_docs, Head(ds)))
         ELSE SplitLoop(Tail(ds), Append(text_docs, Head(ds)), python_docs)

SplitDocuments(ds) == SplitLoop(ds, <<>>, <<>>)

\* The two splitters main builds.
text_splitter == [language |-> "none", chunk_size |-> 1000, chunk_overlap |-> 200]
python_splitter == [language |-> "python", chunk_size |-> 1000, chunk_overlap |-> 200]

\* splitter.split_documents(ds): the chunks of each document in the order of
\* ds; what is kept of a document's chunks is the document and the splitter
\* that cut them.
SplitWith(splitter, ds) ==
    [i \in 1..Len(ds) |-> [doc |-> ds[i], splitter |-> splitter]]

\* click parses the options of ingest.py before main is called.
IngestOptions ==
    /\ command = "ingest"
    /\ mpc = "cli"
    /\ IF device_type \in DEVICE_CHOICES
       THEN /\ mpc' = "main"
            /\ fatal' = fatal
       ELSE /\ mpc' = "exited"
            /\ fatal' = "UsageError"
    /\ UNCHANGED <<command, device_type, openai, api_key, model_id, loaded, work,
                   documents, text_documents, python_documents, texts>>
    /\ UNCHANGED <<ingestVars, queryVars, promptVars>>

\* main of ingest.py: the source directory is read and load_documents called.
IngestLoad ==
    /\ command = "ingest"
    /\ mpc = "main"
    /\ documents' = loaded
    /\ work' = Append(work, "load_documents")
    /\ mpc' = "loaded"
    /\ UNCHANGED <<command, device_type, openai, api_key, model_id, loaded, fatal,
                   text_documents, python_documents, texts>>
    /\ UNCHANGED <<ingestVars, queryVars, promptVars>>

\* main of ingest.py: split_documents, then the two splitters over their group.
IngestSplit ==
    /\ command = "ingest"
    /\ mpc = "loaded"
    /\ text_documents' = SplitDocuments(documents).text_docs
    /\ python_documents' = SplitDocuments(documents).python_docs
    /\ texts' = SplitWith(text_splitter, text_documents')
                   \o SplitWith(python_splitter, python_documents')
    /\ work' = Append(work, "split_documents")
    /\ mpc' = "split"
    /\ UNCHANGED <<command, device_type, openai, api_key, model_id, loaded, fatal,
                   documents>>
    /\ UNCHANGED <<ingestVars, queryVars, promptVars>>

\* main of ingest.py: the embeddings are built; with --openai the key is read here.
IngestEmbeddings ==
    /\ command = "ingest"
    /\ mpc = "split"
    /\ IF openai /\ KeyMissing(api_key)
       THEN /\ mpc' = "exited"
            /\ fatal' = "ValidationError"
       ELSE /\ mpc' = "embeddings"
            /\ fatal' = fatal
    /\ UNCHANGED <<command, device_type, openai, api_key, model_id, loaded, work,
                   documents, text_documents, python_documents, texts>>
    /\ UNCHANGED <<ingestVars, queryVars, promptVars>>

\* main of ingest.py: Chroma.from_documents and db.persist().
IngestStore ==
    /\ command = "ingest"
    /\ mpc = "embeddings"
    /\ work' = Append(work, "from_documents")
    /\ mpc' = "done"
    /\ UNCHANGED <<command, device_type, openai, api_key, model_id, loaded, fatal,
                   documents, text_documents, python_documents, texts>>
    /\ UNCHANGED <<ingestVars, queryVars, promptVars>>

\* click parses the options of run_localGPT.py before main is called.
QueryOptions ==
    /\ command = "query"
    /\ mpc = "cli"
    /\ IF device_type \in DEVICE_CHOICES
       THEN /\ mpc' = "main"
            /\ fatal' = fatal
       ELSE /\ mpc' = "exited"
            /\ fatal' = "UsageError"
    /\ UNCHANGED <<command, device_type, openai, api_key, model_id, loaded, work,
                   documents, text_documents, python_documents, texts>>
    /\ UNCHANGED <<ingestVars, queryVars, promptVars>>

\* main of run_localGPT.py up to the chain: the prompts, the embeddings and the
\* llm (OpenAI with the key typed, or load_model), the store, the chain.
QuerySetup ==
    /\ command = "query"
    /\ mpc = "main"
    /\ IF openai
       THEN IF KeyMissing(api_key)
            THEN /\ mpc' = "exited"
                 /\ fatal' = "ValidationError"
            ELSE /\ mpc' = "ready"
                 /\ fatal' = fatal
       ELSE IF LoadModelRaises(model_id)
            THEN /\ mpc' = "exited"
                 /\ fatal' = "OSError"
            ELSE /\ mpc' = "ready"
                 /\ fatal' = fatal
    /\ UNCHANGED <<command, device_type, openai, api_key, model_id, loaded, work,
                   documents, text_documents, python_documents, texts>>
    /\ UNCHANGED <<ingestVars, queryVars, promptVars>>

\* The query loop reads its first line.
QueryFirst ==
    /\ command = "query"
    /\ mpc = "ready"
    /\ work' = Append(work, "query")
    /\ mpc' = "done"
    /\ UNCHANGED <<command, device_type, openai, api_key, model_id, loaded, fatal,
                   documents, text_documents, python_documents, texts>>
    /\ UNCHANGED <<ingestVars, queryVars, promptVars>>

InitMain ==
    /\ listing = <<>>
    /\ threads = 1
    /\ ipc = "start"
    /\ error = ""
    /\ paths = <<>>
    /\ n_workers = 0
    /\ chunksize = 0
    /\ futures = <<>>
    /\ bstat = <<>>
    /\ fstat = <<>>
    /\ consumed = {}
    /\ docs = <<>>
    /\ qpc = "awaiting"
    /\ memory = <<>>
    /\ inputs = <<>>
    /\ outcomes = <<>>
    /\ answers = <<>>
    /\ calls = <<>>
    /\ lastPrompt = <<>>
    /\ promptTurn = 0
    /\ system_prompt = <<>>
    /\ promptTemplate_type = "None"
    /\ history = FALSE
    /\ validate_template = TRUE
    /\ ppc = "args"
    /\ prompt_template = <<>>
    /\ input_variables = {}
    /\ chat = <<>>
    /\ rendered = <<>>
    /\ command \in {"ingest", "query"}
    /\ device_type \in DeviceArgs
    /\ openai \in BOOLEAN
    /\ api_key \in ApiKeys
    /\ model_id \in ModelIds
    /\ loaded \in LoadedLists
    /\ mpc = "cli"
    /\ fatal = ""
    /\ work = <<>>
    /\ documents = <<>>
    /\ text_documents = <<>>
    /\ python_documents = <<>>
    /\ texts = <<>>

NextMain ==
    \/ IngestOptions
    \/ IngestLoad
    \/ IngestSplit
    \/ IngestEmbeddings
    \/ IngestStore
    \/ QueryOptions
    \/ QuerySetup
    \/ QueryFirst

SpecMain == InitMain /\ [][NextMain]_vars

\* ------------------------------------------------------ ingestion claims
Terminal == ipc \in {"done", "raised"}

\* The eligible files whose load succeeds, as documents.
LoadableDocs == {Document(paths[i]) : i \in {j \in 1..Len(paths) : paths[j].loads}}

SeqRange(s) == {s[i] : i \in 1..Len(s)}

RECURSIVE Flatten(_)
Flatten(ss) == IF ss = <<>> THEN <<>> ELSE Head(ss) \o Flatten(Tail(ss))

\* C1: a failure while loading one file fails only that file: when a run with
\* at least one loadable eligible file ends, it has not been aborted and every
\* eligible file whose own load succeeds is among the returned documents.
C1_FailureIsLocal ==
    (Terminal /\ LoadableDocs # {}) =>
        (ipc = "done" /\ LoadableDocs \subseteq SeqRange(Returned))

\* C2: when a run over a non-empty set of eligible files ends, the returned
\* documents and the recorded failures together hold every eligible file
\* exactly once: |documents| + |failures| = |eligible files|.
C2_PartitionComplete ==
    (Terminal /\ paths # <<>>) =>
        /\ Len(Returned) + Len(Failures) = Len(paths)
        /\ \A i \in 1..Len(paths) :
              Cardinality({j \in 1..Len(Returned) : Returned[j] = Document(paths[i])})
              + Cardinality({j \in 1..Len(Failures) : Failures[j] = paths[i]}) = 1

\* C3: a directory with no eligible file is ingested without error: the run
\* does not raise, returns the empty list, and dispatches no batch.
C3_EmptyDirectoryIsEmptyResult ==
    (ipc # "start" /\ Eligible(listing) = <<>>) =>
        (ipc # "raised" /\ futures = <<>> /\ Returned = <<>>)

CeilDiv(n, w) == (n + w - 1) \div w

\* C4 as stated: for n >= 1 eligible files the batches have size ceil(n/W), at
\* most W batches are dispatched, and the batches in submission order
\* concatenate to the file list.
C4_CeilBatches ==
    (ipc # "start" /\ Len(paths) >= 1) =>
        /\ chunksize = CeilDiv(Len(paths), n_workers)
        /\ Len(futures) <= n_workers
        /\ Flatten(futures) = paths

\* C4 as amended: for n >= 1 eligible files the batch size c is n/W rounded to
\* the nearest integer, an exact half to the even neighbour (so c >= 1); every
\* batch but the last has c files and the last between 1 and c; the batches in
\* submission order concatenate to the file list (contiguous, pairwise
\* disjoint, covering, in the original order); their number is the least k
\* with k * c >= n, which may exceed W.
C4_RoundedBatches ==
    (ipc # "start" /\ Len(paths) >= 1) =>
        LET n == Len(paths)
            c == chunksize
            k == Len(futures)
        IN  /\ c >= 1
            /\ 2 * c * n_workers >= 2 * n - n_workers
            /\ 2 * c * n_workers <= 2 * n + n_workers
            /\ (2 * c * n_workers = 2 * n - n_workers \/ 2 * c * n_workers = 2 * n + n_workers)
                  => c % 2 = 0
            /\ \A b \in 1..(k - 1) : Len(futures[b]) = c
            /\ k >= 1 /\ Len(futures[k]) \in 1..c
            /\ k * c >= n /\ (k - 1) * c < n
            /\ Flatten(futures) = paths

\* C4's case: several workers, and more batches dispatched than workers.
C4_Witness ==
    /\ ipc = "collecting"
    /\ Len(futures) > n_workers
    /\ n_workers >= 2

\* C5: for a non-empty set of eligible files the worker count W satisfies
\* 1 <= W <= min(INGEST_THREADS, file_count); one file gives one worker and
\* one batch.
C5_WorkerBound ==
    (ipc # "start" /\ Len(paths) >= 1) =>
        /\ 1 <= n_workers
        /\ n_workers <= threads
        /\ n_workers <= Len(paths)
        /\ Len(paths) = 1 => (n_workers = 1 /\ Len(futures) = 1)

\* C5's case: a single eligible file on a machine with several ingest threads.
C5_Witness ==
    /\ ipc = "collecting"
    /\ Len(paths) = 1
    /\ threads >= 2
    /\ n_workers = 1

\* ----------------------------------------------------- query loop claims
Last(s) == s[Len(s)]

Failed == {"retrieval_error", "generation_error"}

\* C6: a failed retrieval or chain call is fatal to its turn only: after it the
\* loop awaits the next query, and the loop ends only on the "exit" input.
C6_FailureIsPerTurn ==
    /\ (outcomes # <<>> /\ Last(outcomes) \in Failed) => qpc = "awaiting"
    /\ qpc # "awaiting" => (outcomes # <<>> /\ Last(outcomes) = "exit")

\* The messages of the answered turns among the first k lines, oldest first.
RECURSIVE AnsweredMessages(_)
AnsweredMessages(k) ==
    IF k = 0 THEN <<>>
    ELSE AnsweredMessages(k - 1)
         \o (IF outcomes[k] = "answered"
             THEN << [role |-> "Human", content |-> inputs[k]],
                     [role |-> "AI", content |-> answers[k]] >>
             ELSE <<>>)

\* C7: memory holds exactly the (question, answer) pairs of the turns whose
\* generation succeeded, in order, and nothing for a failed turn.
C7_MemoryOnlyOfAnsweredTurns ==
    memory = AnsweredMessages(Len(inputs))

\* C7's case: a turn whose language model call failed, after an answered one.
C7_Witness ==
    /\ Len(outcomes) = 2
    /\ outcomes[1] = "answered"
    /\ outcomes[2] = "generation_error"
    /\ Len(memory) = 2

\* The first position of piece t in prompt p (0 when absent).
IndexOf(p, t) ==
    IF \E i \in 1..Len(p) : p[i] = t
    THEN CHOOSE i \in 1..Len(p) : p[i] = t /\ \A j \in 1..(i - 1) : p[j] # t
    ELSE 0

\* The history section of a prompt of main: the pieces between its "History: "
\* label and the line of its "Question: " label.
HistorySection(p) == SubSeq(p, IndexOf(p, "History: ") + 1, IndexOf(p, "Question: ") - 2)

\* The questions and answers of the answered turns among the first k lines:
\* q1, a1, q2, a2, ...
RECURSIVE AnsweredTexts(_)
AnsweredTexts(k) ==
    IF k = 0 THEN <<>>
    ELSE AnsweredTexts(k - 1)
         \o (IF outcomes[k] = "answered" THEN <<inputs[k], answers[k]>> ELSE <<>>)

\* C8: the prompt composed for a turn has a history section that holds the
\* question and the answer of every earlier answered turn verbatim, oldest
\* first, each question before its answer, and nothing else but the role
\* prefixes and the line breaks.
C8_HistoryHoldsEveryEarlierTurn ==
    promptTurn > 0 =>
        /\ IndexOf(lastPrompt, "History: ") > 0
        /\ IndexOf(lastPrompt, "Question: ") > IndexOf(lastPrompt, "History: ")
        /\ SelectSeq(HistorySection(lastPrompt),
                     LAMBDA t : t \notin {"Human: ", "AI: ", "\n"})
              = AnsweredTexts(promptTurn - 1)

\* C8's case: the prompt of a third turn, after two answered turns.
C8_Witness ==
    /\ promptTurn = 3
    /\ outcomes[1] = "answered"
    /\ outcomes[2] = "answered"
    /\ Len(HistorySection(lastPrompt)) > 5

\* C9: a line makes a retrieval/generation call if and only if it is not
\* exactly "exit": the calls are the lines other than "exit", in order, the
\* empty line included; "exit" ends the loop at once, and as the first line it
\* leaves no call, no prompt and an empty memory.
C9_CallIffNotExit ==
    /\ calls = SelectSeq(inputs, LAMBDA l : l # "exit")
    /\ \A i \in 1..Len(inputs) :
          inputs[i] = "exit" => (i = Len(inputs) /\ qpc = "terminated")
    /\ \A i \in 1..Len(inputs) : outcomes[i] = "exit" <=> inputs[i] = "exit"
    /\ (inputs # <<>> /\ inputs[1] = "exit") =>
          (calls = <<>> /\ memory = <<>> /\ promptTurn = 0)

\* C9's case: the empty line and a near-miss of the sentinel were passed to the
\* chain, then "exit" ended the loop.
C9_Witness ==
    /\ inputs = <<"", "Exit", "exit">>
    /\ calls = <<"", "Exit">>
    /\ qpc = "terminated"

\* --------------------------------------------------- prompt template claims
PiecesOf(p) == {p[i] : i \in 1..Len(p)}

\* C10: a template built with history=False, for either family and any system
\* prompt (the default TEMPLATE included), has the placeholders context and
\* question and no other, keeps its 'Chat History: ###' marker, is built
\* without error, and formats to a prompt without any text of an earlier turn.
C10_NoHistoryWithoutFlag ==
    (ppc # "args" /\ ~history) =>
        /\ SlotsOf(prompt_template) = {"{context}", "{question}"}
        /\ "Chat History: ###" \in PiecesOf(prompt_template)
        /\ ppc # "raised"
        /\ ppc = "formatted" =>
              \A i \in 1..Len(chat) : chat[i].content \notin PiecesOf(rendered)

\* The pieces that are only line breaks and indentation.
Whitespace == {"\n    ", "\n            ", "\n\n    ", "\n\n            "}

\* The marker pairs of the llama family.
Markers == {"[INST]", "[/INST]", "<<SYS>>\n", "\n<</SYS>>\n\n"}

\* The pieces of a template that are neither layout nor markers, in order.
Content(t) == SelectSeq(t, LAMBDA x : x \notin Whitespace \cup Markers)

\* The markers of a template, in order.
MarkersIn(t) == SelectSeq(t, LAMBDA x : x \in Markers)

\* The sections that follow the system prompt, for a value of the history flag.
Sections(hist) ==
    << "Documents: ###", "{context}", "###", "Chat History: ###" >>
    \o (IF hist THEN <<"{history}">> ELSE <<>>)
    \o << "###", "Question: ###", "{question}", "###", "Helpful Answer:" >>

\* C11: for both values of the history flag the llama template holds, after
\* the system prompt, the same ordered sections as the plain template
\* (Documents, Chat History, Question, then the 'Helpful Answer:' cue), and
\* differs from it only by its [INST] <<SYS>> ... <</SYS>> ... [/INST] markers;
\* every type other than "llama" gives the plain family.
C11_FamiliesHoldTheSameSections ==
    ppc # "args" =>
        /\ Content(prompt_template) = Content(system_prompt) \o Sections(history)
        /\ MarkersIn(prompt_template) =
              (IF promptTemplate_type = "llama"
               THEN << "[INST]", "<<SYS>>\n", "\n<</SYS>>\n\n", "[/INST]" >>
               ELSE <<>>)

\* ------------------------------------------------- batch order claim
\* The documents of the files of batch b, in the order of its file paths.
BatchDocs(b) ==
    [j \in 1..Len(futures[b]) |->
        [source |-> [name |-> futures[b][j].name, ext |-> futures[b][j].ext]]]

\* d is the documents of every batch of S, whole batch after whole batch, in
\* some order of the batches.
RECURSIVE IsConcatOf(_, _)
IsConcatOf(d, S) ==
    IF S = {} THEN d = <<>>
    ELSE \E b \in S :
            /\ Len(d) >= Len(futures[b])
            /\ SubSeq(d, 1, Len(futures[b])) = BatchDocs(b)
            /\ IsConcatOf(SubSeq(d, Len(futures[b]) + 1, Len(d)), S \ {b})

\* C14: under every completion order of the batches and every interleaving of
\* the per-file loads, the list of a load_documents that does not raise is a
\* concatenation of whole batch results: the documents of one batch are
\* contiguous and in the order of the batch's file paths; what is returned
\* holds every batch, and only the order of the batches varies.
C14_WholeBatchesInBatchOrder ==
    /\ ipc = "collecting" => IsConcatOf(docs, consumed)
    /\ ipc = "done" => IsConcatOf(Returned, 1..Len(futures))

\* C14's case: two batches, the first of two files, and the second batch was
\* collected before the first.
C14_Witness ==
    /\ ipc = "done"
    /\ Len(futures) = 2
    /\ Len(futures[1]) = 2
    /\ Returned = BatchDocs(2) \o BatchDocs(1)

\* ------------------------------------------------- claims on the two commands

\* C12: in both commands a configuration error (a device type outside the
\* choices, a model id that cannot be loaded, a missing API key with --openai)
\* ends the command before any work: before a document is loaded or split in
\* the ingestion command, before the first query is read in the query command.
C12_ConfigErrorsBeforeAnyWork ==
    fatal # "" => work = <<>>

Occurrences(d, ds) == Cardinality({i \in 1..Len(ds) : ds[i] = d})

Done(step) == \E i \in 1..Len(work) : work[i] = step

\* C13: once split_documents and the two splitters have run, the code-aware
\* group is the documents whose source extension is ".py" and the generic group
\* is all the others, each in input order; every document is in exactly one
\* group, once; each is cut by the splitter of its group, and both splitters
\* have chunk size 1000 and overlap 200.
C13_RoutedByExtension ==
    Done("split_documents") =>
        /\ python_documents = SelectSeq(documents, LAMBDA d : d.source.ext = ".py")
        /\ text_documents = SelectSeq(documents, LAMBDA d : d.source.ext # ".py")
        /\ \A i \in 1..Len(documents) :
              Occurrences(documents[i], text_documents)
                 + Occurrences(documents[i], python_documents) = 1
        /\ Len(texts) = Len(documents)
        /\ \A i \in 1..Len(texts) :
              /\ texts[i].splitter.chunk_size = 1000
              /\ texts[i].splitter.chunk_overlap = 200
              /\ texts[i].splitter.language = "python" <=> texts[i].doc.source.ext = ".py"

\* Three documents were split: a .py, a .md and a second .py, so both groups
\* are used and the code-aware group holds two documents in input order.
C13_Witness ==
    /\ Done("split_documents")
    /\ Len(documents) = 3
    /\ documents[1].source.ext = ".py"
    /\ documents[2].source.ext = ".md"
    /\ documents[3].source.ext = ".py"
    /\ python_documents = << documents[1], documents[3] >>
    /\ text_documents = << documents[2] >>

=============================================================================
